---- MODULE Spec2Model ----
\* Multi-module version manager (src/src/version-manager.js, src/src/index.js):
\* dependency graph construction, cycle detection, commit classification,
\* topologically ordered version calculation and the apply / dry-run pipeline.
EXTENDS Integers, Sequences, FiniteSets, TLC

\* ------------------------------------------------------------------ bounds

\* include(...) lines read from settings.gradle.kts
MaxModules == 3
\* implementation(project(...)) lines per build.gradle.kts
MaxDeps == 2
\* commit subjects per classified history
MaxCommits == 3
\* largest version component drawn for the bump checks
MaxComponent == 2
\* runs of execute() on the same repository
MaxRuns == 2

\* ------------------------------------------------------------------ text

\* Module directories under the root directory.
Dirs == {"a", "b", "c"}

\* A name is a sequence of tokens: <<":", "a">> is ':a', <<"a">> is 'a'.
Plain(d) == <<d>>
Colon(d) == <<":", d>>

\* the module directories as paths relative to the root directory
Paths == {Plain(d) : d \in Dirs}

\* String.prototype.replace(':', by): only the first ':' is replaced.
RECURSIVE ReplaceFirst(_, _)
ReplaceFirst(name, by) ==
    IF name = <<>> THEN <<>>
    ELSE IF Head(name) = ":" THEN <<by>> \o Tail(name)
    ELSE <<Head(name)>> \o ReplaceFirst(Tail(name), by)

\* path.join(rootDir, moduleName.replace(':', '/')): the directory of a module
\* relative to the root; a leading '/' is absorbed by the join.
ModulePath(moduleName) ==
    LET p == ReplaceFirst(moduleName, "/")
    IN  IF p # <<>> /\ Head(p) = "/" THEN Tail(p) ELSE p

Range(s) == {s[i] : i \in 1..Len(s)}

\* Sequences over S without repetition, of length at most n.
DistinctSeqs(S, n) ==
    {s \in UNION {[1..k -> S] : k \in 0..n} :
        \A i, j \in 1..Len(s) : i # j => s[i] # s[j]}

SeqsUpTo(S, n) == UNION {[1..k -> S] : k \in 0..n}

\* ------------------------------------------------------------------ versions

\* A version string is the sequence of its dot-separated components. A
\* component that is a decimal numeral is the number itself; the other texts
\* are encoded below zero.
NaN == -1
Undefined == -2
EmptyText == -3
Garbage == -4

\* Number(text)
ToNumber(c) ==
    IF c >= 0 THEN c
    ELSE IF c = EmptyText THEN 0
    ELSE NaN

\* x + 1 on a Number or undefined
PlusOne(x) == IF x >= 0 THEN x + 1 ELSE NaN

\* destructuring [major, minor, patch] = parts: a missing element is undefined
Part(parts, i) == IF i <= Len(parts) THEN parts[i] ELSE Undefined

\* the value standing for the Error thrown on an unknown increment type
UnknownIncrementType == <<Garbage>>

IncrementVersionDropsReset(currentVersion, type) ==
    LET parts == [i \in 1..Len(currentVersion) |-> ToNumber(currentVersion[i])]
        major == Part(parts, 1)
        minor == Part(parts, 2)
        patch == Part(parts, 3)
    IN  CASE type = "major" -> <<PlusOne(major), minor, patch>>
          [] type = "minor" -> <<major, PlusOne(minor), patch>>
          [] type = "patch" -> <<major, minor, PlusOne(patch)>>
          [] OTHER -> UnknownIncrementType

\* incrementVersion: the new version string; an unknown type throws.
IncrementVersion(currentVersion, type) ==
    LET parts == [i \in 1..Len(currentVersion) |-> ToNumber(currentVersion[i])]
        major == Part(parts, 1)
        minor == Part(parts, 2)
        patch == Part(parts, 3)
    IN  CASE type = "major" -> <<PlusOne(major), 0, 0>>
          [] type = "minor" -> <<major, PlusOne(minor), 0>>
          [] type = "patch" -> <<major, minor, PlusOne(patch)>>
          [] OTHER -> UnknownIncrementType

\* ModuleNode.newVersion before calculation
Null == <<>>

\* extractVersion's fallback when the build file declares no version
DefaultVersion == <<0, 1, 0>>

\* ------------------------------------------------------------------ commits

\* A commit subject: the prefix it starts with and whether the text contains
\* the token 'BREAKING CHANGE'.
Prefixes == {"feat!:", "feat:", "fix:", "chore:"}
Commits == [prefix : Prefixes, breaking : BOOLEAN]

StartsWith(commit, prefix) == commit.prefix = prefix
IncludesBreaking(commit) == commit.breaking

Subject(prefix) == [prefix |-> prefix, breaking |-> FALSE]

\* The else-if chain of determineChangeType's loop body, below the early return.
ClassifyStepFixOverrides(changeType, commit) ==
    IF StartsWith(commit, "feat:") /\ changeType # "major" THEN "minor"
    ELSE IF StartsWith(commit, "fix:") THEN "patch"
    ELSE changeType

ClassifyStep(changeType, commit) ==
    IF StartsWith(commit, "feat:") /\ changeType # "major" THEN "minor"
    ELSE IF StartsWith(commit, "fix:") /\ changeType = "none" THEN "patch"
    ELSE changeType

\* The loop of determineChangeType from a running value: the first
\* breaking-change commit returns 'major' at once.
RECURSIVE ClassifyFrom(_, _)
ClassifyFrom(changeType, commits) ==
    IF commits = <<>> THEN changeType
    ELSE IF StartsWith(Head(commits), "feat!:") \/ IncludesBreaking(Head(commits))
         THEN "major"
    ELSE ClassifyFrom(ClassifyStep(changeType, Head(commits)), Tail(commits))

DetermineChangeType(commits) == ClassifyFrom("none", commits)

\* ------------------------------------------------------------------ state

VARIABLES
    \* the project on disk and its repository
    settings,        \* include(...) names of settings.gradle.kts, in file order
    buildFiles,      \* path -> build.gradle.kts: exists, version, project deps
    history,         \* path -> subjects of `git log <range> -- path`, or a failure
    tags,            \* tag refs of the remote repository
    repoHead,        \* path -> version text of build.gradle.kts at git HEAD
    \* how the manager is deployed and started
    dryRun,          \* this.dryRun
    githubInScope,   \* the manager is part_000, which requires '@actions/github' (line 4)
    entry,           \* "action": index.js run(); "cli": main of version-manager.js
    \* the manager
    nodes,           \* every ModuleNode constructed, by creation order
    moduleGraph,     \* this.moduleGraph: entries [key, node] in insertion order
    visitedModules,  \* this.visitedModules
    moduleOrder,     \* this.moduleOrder
    modifiedFiles,   \* updateVersions' modifiedFiles
    pc,              \* the statement of execute() about to run
    idx,             \* position of the loop at pc
    thrown,          \* the error execute() rethrows
    \* effects of the run
    writes,          \* updateGradleVersion's writeFileSync calls: [path, version]
    commitLog,       \* commits recorded by commitChanges: the files of each
    createRefCalls,  \* octokit createRef calls: [tag, existed]
    changelogs,      \* paths whose CHANGELOG.md was written
    printed,         \* printDryRunResults' summary lines
    run              \* number of the run of execute() since Init

world == <<settings, buildFiles, history, tags, repoHead>>
deployment == <<dryRun, githubInScope, entry>>
manager_but_pc == <<nodes, moduleGraph, visitedModules, moduleOrder, modifiedFiles, idx, thrown>>
manager == <<manager_but_pc, pc>>
effects == <<writes, commitLog, createRefCalls, changelogs, printed, run>>
vars == <<world, deployment, manager, effects>>

NoError == [kind |-> "none"]

\* ------------------------------------------------------------------ graph

\* new ModuleNode(name, currentVersion), with .path assigned
ModuleNode(name, currentVersion, path) ==
    [name |-> name, currentVersion |-> currentVersion, newVersion |-> Null,
     changeType |-> "none", dependencies |-> <<>>, dependents |-> <<>>,
     path |-> path]

\* Set.prototype.add: insertion order, no repetition
SetAdd(s, x) == IF x \in Range(s) THEN s ELSE Append(s, x)

\* Map.prototype.has / get / set / values on entries in insertion order
MapHas(m, k) == \E i \in 1..Len(m) : m[i].key = k
MapGet(m, k) == m[CHOOSE i \in 1..Len(m) : m[i].key = k].node
MapSet(m, k, v) ==
    IF MapHas(m, k)
    THEN [i \in 1..Len(m) |-> IF m[i].key = k THEN [key |-> k, node |-> v] ELSE m[i]]
    ELSE Append(m, [key |-> k, node |-> v])
MapValues(m) == [i \in 1..Len(m) |-> m[i].node]

\* extractVersion: first version = "..." of the build file, else '0.1.0'
ExtractVersion(buildContent) ==
    IF buildContent.version # Null THEN buildContent.version ELSE DefaultVersion

\* extractDependencies: the text captured after the ':' of every
\* implementation(project(":...")), collected into a Set
RECURSIVE ExtractFrom(_, _)
ExtractFrom(projects, deps) ==
    IF projects = <<>> THEN deps
    ELSE ExtractFrom(Tail(projects), SetAdd(deps, Tail(Head(projects))))

ExtractDependencies(buildContent) == ExtractFrom(buildContent.projects, <<>>)

\* The inner loop of buildDependencyGraph (lines 69-74) for node id `n`, just
\* stored in graph `g` over heap `h`: the heap after linking.
RECURSIVE LinkDependencies(_, _, _, _)
LinkDependenciesOneWay(h, g, n, deps) ==
    IF deps = <<>> THEN h
    ELSE LET dep == Head(deps)
             h1 == IF MapHas(g, dep)
                   THEN [h EXCEPT ![n].dependencies = SetAdd(@, MapGet(g, dep))]
                   ELSE h
         IN  LinkDependencies(h1, g, n, Tail(deps))

LinkDependenciesReversed(h, g, n, deps) ==
    IF deps = <<>> THEN h
    ELSE LET dep == Head(deps)
             h1 == IF MapHas(g, dep)
                   THEN LET t == MapGet(g, dep)
                            h0 == [h EXCEPT ![t].dependencies = SetAdd(@, n)]
                        IN  [h0 EXCEPT ![n].dependents = SetAdd(@, t)]
                   ELSE h
         IN  LinkDependencies(h1, g, n, Tail(deps))

LinkDependencies(h, g, n, deps) ==
    IF deps = <<>> THEN h
    ELSE LET dep == Head(deps)
             h1 == IF MapHas(g, dep)
                   THEN LET t == MapGet(g, dep)
                            h0 == [h EXCEPT ![n].dependencies = SetAdd(@, t)]
                        IN  [h0 EXCEPT ![t].dependents = SetAdd(@, n)]
                   ELSE h
         IN  LinkDependencies(h1, g, n, Tail(deps))

\* Array.prototype.indexOf and slice(from)
IndexOf(s, x) == CHOOSE i \in 1..Len(s) : s[i] = x /\ \A j \in 1..(i - 1) : s[j] # x
SliceFrom(s, from) == SubSeq(s, from, Len(s))

\* detectCycle(node, path) over heap h: the cycle it throws, or <<>> when it
\* returns. path is the Set of names from the root of the walk to node.
RECURSIVE DetectCycle(_, _, _)
RECURSIVE DetectCycleIn(_, _, _)
DetectCycleWholePath(h, n, path) ==
    IF h[n].name \in Range(path)
    THEN Append(path, h[n].name)
    ELSE DetectCycleIn(h, h[n].dependencies, SetAdd(path, h[n].name))

DetectCycle(h, n, path) ==
    IF h[n].name \in Range(path)
    THEN LET cycle == Append(path, h[n].name)
         IN  SliceFrom(cycle, IndexOf(cycle, h[n].name))
    ELSE DetectCycleIn(h, h[n].dependencies, SetAdd(path, h[n].name))

\* the for loop of detectCycle over node.dependencies
DetectCycleIn(h, dependencies, path) ==
    IF dependencies = <<>> THEN <<>>
    ELSE LET c == DetectCycle(h, Head(dependencies), path)
         IN  IF c # <<>> THEN c ELSE DetectCycleIn(h, Tail(dependencies), path)

\* the for loop of detectCyclicDependencies over moduleGraph.values()
RECURSIVE DetectCycleFrom(_, _)
DetectCycleFrom(h, values) ==
    IF values = <<>> THEN <<>>
    ELSE LET c == DetectCycle(h, Head(values), <<>>)
         IN  IF c # <<>> THEN c ELSE DetectCycleFrom(h, Tail(values))

\* visit(node) of topologicalSort on st = [visited, order]
RECURSIVE Visit(_, _, _)
RECURSIVE VisitAll(_, _, _)
VisitPreOrder(h, n, st) ==
    IF h[n].name \in st.visited THEN st
    ELSE VisitAll(h, h[n].dependencies,
                  [visited |-> st.visited \cup {h[n].name}, order |-> Append(st.order, n)])

Visit(h, n, st) ==
    IF h[n].name \in st.visited THEN st
    ELSE LET st1 == [st EXCEPT !.visited = @ \cup {h[n].name}]
             st2 == VisitAll(h, h[n].dependencies, st1)
         IN  [st2 EXCEPT !.order = Append(@, n)]

\* the loops of topologicalSort over node.dependencies and moduleGraph.values()
VisitAll(h, ns, st) ==
    IF ns = <<>> THEN st ELSE VisitAll(h, Tail(ns), Visit(h, Head(ns), st))

\* updateDependents(node, changeType) on heap h
RECURSIVE RaiseDependents(_, _, _)
RaiseDependentsAlways(h, dependents, changeType) ==
    IF dependents = <<>> THEN h
    ELSE RaiseDependents([h EXCEPT ![Head(dependents)].changeType = changeType],
                         Tail(dependents), changeType)

RaiseDependents(h, dependents, changeType) ==
    IF dependents = <<>> THEN h
    ELSE LET d == Head(dependents)
             h1 == IF h[d].changeType = "none" \/ h[d].changeType = "patch"
                   THEN [h EXCEPT ![d].changeType = changeType]
                   ELSE h
         IN  RaiseDependents(h1, Tail(dependents), changeType)

UpdateDependentsWithOwnType(h, n, changeType) ==
    RaiseDependents(h, h[n].dependents, h[n].changeType)

UpdateDependents(h, n, changeType) == RaiseDependents(h, h[n].dependents, changeType)

\* getCommitsSinceTag: the subjects git log prints; a failing git log is
\* caught and gives no commits
GetCommitsSinceTag(path) ==
    IF history[path].ok THEN history[path].subjects ELSE <<>>

\* ------------------------------------------------------------------ execute

Values == MapValues(moduleGraph)

AfterCalculateAlwaysApplies(order) == IF order = <<>> THEN "done" ELSE "update"

\* where execute() continues after calculateNewVersions
AfterCalculate(order) ==
    IF dryRun THEN "print"
    ELSE IF order = <<>> THEN "done"
    ELSE "update"

\* buildDependencyGraph, one iteration of the loop over the include(...)
\* matches (lines 56-76)
BuildModule ==
    /\ pc = "build"
    /\ LET moduleName == settings[idx]
           modulePath == ModulePath(moduleName)
           buildContent == buildFiles[modulePath]
           n == Len(nodes) + 1
           moduleNode == ModuleNode(moduleName, ExtractVersion(buildContent), modulePath)
           g == MapSet(moduleGraph, moduleName, n)
       IN  IF buildContent.exists
           THEN /\ moduleGraph' = g
                /\ nodes' = LinkDependencies(Append(nodes, moduleNode), g, n,
                                             ExtractDependencies(buildContent))
           ELSE UNCHANGED <<nodes, moduleGraph>>
    /\ idx' = IF idx = Len(settings) THEN 1 ELSE idx + 1
    /\ pc' = IF idx = Len(settings) THEN "detect" ELSE "build"
    /\ UNCHANGED <<world, deployment, effects>>
    /\ UNCHANGED <<visitedModules, moduleOrder, modifiedFiles, thrown>>

DetectCyclicDependenciesSwallowed ==
    /\ pc = "detect"
    /\ LET cycle == DetectCycleFrom(nodes, Values)
       IN  thrown' = IF cycle # <<>>
                     THEN [kind |-> "CyclicDependency", cycle |-> cycle]
                     ELSE thrown
    /\ pc' = IF moduleGraph = <<>> THEN "sort" ELSE "analyze"
    /\ idx' = 1
    /\ UNCHANGED <<world, deployment, effects>>
    /\ UNCHANGED <<nodes, moduleGraph, visitedModules, moduleOrder, modifiedFiles>>

\* detectCyclicDependencies (lines 93-118); the Error is rethrown by execute
DetectCyclicDependencies ==
    /\ pc = "detect"
    /\ LET cycle == DetectCycleFrom(nodes, Values)
       IN  IF cycle # <<>>
           THEN /\ thrown' = [kind |-> "CyclicDependency", cycle |-> cycle]
                /\ pc' = "failed"
           ELSE /\ thrown' = thrown
                /\ pc' = IF moduleGraph = <<>> THEN "sort" ELSE "analyze"
    /\ idx' = 1
    /\ UNCHANGED <<world, deployment, effects>>
    /\ UNCHANGED <<nodes, moduleGraph, visitedModules, moduleOrder, modifiedFiles>>

\* getCommitsSinceTag of part_000 (lines 159-201), the variant of the manager
\* that requires '@actions/github': its catch block reads moduleDir, a const
\* of the try block, so a failing git log leaves it as a ReferenceError.
\* For this variant history[path] is what its git log on the module prints.
FetchThrows(path) == githubInScope /\ ~history[path].ok

\* analyzeChanges, one iteration of the loop over moduleGraph.values()
\* (lines 124-129)
AnalyzeNode ==
    /\ pc = "analyze"
    /\ LET n == Values[idx]
           changes == GetCommitsSinceTag(nodes[n].path)
       IN  IF FetchThrows(nodes[n].path)
           THEN /\ thrown' = [kind |-> "ReferenceError", name |-> "moduleDir"]
                /\ pc' = "failed"
                /\ idx' = 1
                /\ nodes' = nodes
           ELSE /\ nodes' = [nodes EXCEPT ![n].changeType = DetermineChangeType(changes)]
                /\ idx' = IF idx = Len(moduleGraph) THEN 1 ELSE idx + 1
                /\ pc' = IF idx = Len(moduleGraph) THEN "sort" ELSE "analyze"
                /\ thrown' = thrown
    /\ UNCHANGED <<world, deployment, effects>>
    /\ UNCHANGED <<moduleGraph, visitedModules, moduleOrder, modifiedFiles>>

\* topologicalSort (lines 206-227), the first statement of calculateNewVersions
TopologicalSort ==
    /\ pc = "sort"
    /\ LET st == VisitAll(nodes, Values, [visited |-> {}, order |-> <<>>])
       IN  /\ visitedModules' = st.visited
           /\ moduleOrder' = st.order
           /\ pc' = IF st.order = <<>> THEN AfterCalculate(st.order) ELSE "calculate"
    /\ idx' = 1
    /\ UNCHANGED <<world, deployment, effects>>
    /\ UNCHANGED <<nodes, moduleGraph, modifiedFiles, thrown>>

\* the switch of calculateNewVersions for node n on heap h (lines 184-202)
CalculateSwitch(h, n) ==
    LET node == h[n]
    IN  CASE node.changeType = "major" ->
                UpdateDependents(
                    [h EXCEPT ![n].newVersion = IncrementVersion(node.currentVersion, "major")],
                    n, "minor")
          [] node.changeType = "minor" ->
                [h EXCEPT ![n].newVersion = IncrementVersion(node.currentVersion, "minor")]
          [] node.changeType = "patch" ->
                [h EXCEPT ![n].newVersion = IncrementVersion(node.currentVersion, "patch")]
          [] node.changeType = "none" ->
                IF \E d \in Range(node.dependencies) : h[d].changeType = "major"
                THEN [h EXCEPT ![n].newVersion = IncrementVersion(node.currentVersion, "minor")]
                ELSE [h EXCEPT ![n].newVersion = node.currentVersion]

\* calculateNewVersions, one iteration of the loop over moduleOrder
\* (lines 183-203)
CalculateNode ==
    /\ pc = "calculate"
    /\ nodes' = CalculateSwitch(nodes, moduleOrder[idx])
    /\ idx' = IF idx = Len(moduleOrder) THEN 1 ELSE idx + 1
    /\ pc' = IF idx = Len(moduleOrder) THEN AfterCalculate(moduleOrder) ELSE "calculate"
    /\ UNCHANGED <<world, deployment, effects>>
    /\ UNCHANGED <<moduleGraph, visitedModules, moduleOrder, modifiedFiles, thrown>>

\* printDryRunResults (lines 424-432): name, current version, new version or
\* 'no change', change type of every node of moduleOrder
PrintDryRunResults ==
    /\ pc = "print"
    /\ printed' = [i \in 1..Len(moduleOrder) |->
                      LET node == nodes[moduleOrder[i]]
                      IN  [name |-> node.name, currentVersion |-> node.currentVersion,
                           newVersion |-> node.newVersion, changeType |-> node.changeType]]
    /\ pc' = "done"
    /\ UNCHANGED <<world, deployment, manager_but_pc>>
    /\ UNCHANGED <<writes, commitLog, createRefCalls, changelogs, run>>

\* the tag createGitTag names: name.replace(':', '-') + '-v' + newVersion
TagOf(node) == [module |-> ReplaceFirst(node.name, "-"), version |-> node.newVersion]

\* content.replace(/version\s*=\s*['"][^'"]+['"]/, ...) of updateGradleVersion:
\* a build file without a version declaration is left as it is
ReplaceVersion(buildContent, newVersion) ==
    IF buildContent.version # Null
    THEN [buildContent EXCEPT !.version = newVersion]
    ELSE buildContent

\* where updateVersions continues after its first loop (line 266)
AfterUpdate(files) == IF files # <<>> /\ ~dryRun THEN "commit" ELSE "tag"

\* updateVersions, one iteration of the first loop (lines 258-263) with
\* updateGradleVersion (lines 278-295)
UpdateGradleVersion ==
    /\ pc = "update"
    /\ LET node == nodes[moduleOrder[idx]]
           updatedContent == ReplaceVersion(buildFiles[node.path], node.newVersion)
           written == node.newVersion # Null /\ ~dryRun
           files == IF written THEN Append(modifiedFiles, node.path) ELSE modifiedFiles
       IN  /\ buildFiles' = IF written
                            THEN [buildFiles EXCEPT ![node.path] = updatedContent]
                            ELSE buildFiles
           /\ writes' = IF written
                        THEN Append(writes, [path |-> node.path, name |-> node.name,
                                             version |-> node.newVersion,
                                             was |-> node.currentVersion])
                        ELSE writes
           /\ modifiedFiles' = files
           /\ pc' = IF idx = Len(moduleOrder) THEN AfterUpdate(files) ELSE "update"
    /\ idx' = IF idx = Len(moduleOrder) THEN 1 ELSE idx + 1
    /\ UNCHANGED <<settings, history, tags, repoHead, deployment>>
    /\ UNCHANGED <<nodes, moduleGraph, visitedModules, moduleOrder, thrown>>
    /\ UNCHANGED <<commitLog, createRefCalls, changelogs, printed, run>>

\* the files git commit would record: those added whose text differs from HEAD
Staged(files) == {p \in Range(files) : buildFiles[p].version # repoHead[p]}

\* commitChanges (lines 297-323): github is a free name of version-manager.js
\* unless the module requires it; git commit fails when nothing is staged
CommitChanges ==
    /\ pc = "commit"
    /\ IF ~githubInScope
       THEN /\ thrown' = [kind |-> "ReferenceError", name |-> "github"]
            /\ pc' = "failed"
            /\ UNCHANGED <<commitLog, repoHead>>
       ELSE IF Staged(modifiedFiles) = {}
       THEN /\ thrown' = [kind |-> "CommandFailed", command |-> "git commit"]
            /\ pc' = "failed"
            /\ UNCHANGED <<commitLog, repoHead>>
       ELSE /\ commitLog' = Append(commitLog, Staged(modifiedFiles))
            /\ repoHead' = [p \in Paths |->
                  IF p \in Range(modifiedFiles) THEN buildFiles[p].version ELSE repoHead[p]]
            /\ pc' = "tag"
            /\ thrown' = thrown
    /\ idx' = 1
    /\ UNCHANGED <<settings, buildFiles, history, tags, deployment>>
    /\ UNCHANGED <<nodes, moduleGraph, visitedModules, moduleOrder, modifiedFiles>>
    /\ UNCHANGED <<writes, createRefCalls, changelogs, printed, run>>

\* updateVersions, one iteration of the tag loop (lines 271-275). Started by
\* index.js, createGitTag is the override of index.js:19-44: createRef without
\* a look-up, which the remote answers with an error when the ref exists.
\* Otherwise it is createGitTag of lines 325-356, where github and octokit are
\* free names: the ReferenceError leaves through line 333 or line 345.
CreateGitTag ==
    /\ pc = "tag"
    /\ LET node == nodes[moduleOrder[idx]]
           tag == TagOf(node)
           next == IF idx = Len(moduleOrder) THEN "changelog" ELSE "tag"
       IN  IF node.newVersion = Null \/ dryRun
           THEN /\ pc' = next
                /\ UNCHANGED <<tags, createRefCalls, thrown>>
           ELSE IF entry = "action"
           THEN /\ createRefCalls' = Append(createRefCalls,
                                            [tag |-> tag, existed |-> tag \in tags])
                /\ IF tag \in tags
                   THEN /\ thrown' = [kind |-> "RequestError", status |-> 422]
                        /\ pc' = "failed"
                        /\ tags' = tags
                   ELSE /\ tags' = tags \cup {tag}
                        /\ pc' = next
                        /\ thrown' = thrown
           ELSE /\ thrown' = [kind |-> "ReferenceError",
                              name |-> IF githubInScope THEN "octokit" ELSE "github"]
                /\ pc' = "failed"
                /\ UNCHANGED <<tags, createRefCalls>>
    /\ idx' = IF idx = Len(moduleOrder) \/ pc' = "failed" THEN 1 ELSE idx + 1
    /\ UNCHANGED <<settings, buildFiles, history, repoHead, deployment>>
    /\ UNCHANGED <<nodes, moduleGraph, visitedModules, moduleOrder, modifiedFiles>>
    /\ UNCHANGED <<writes, commitLog, changelogs, printed, run>>

\* generateChangelogs, one iteration (lines 361-365) with
\* generateModuleChangelog (lines 368-422): CHANGELOG.md of the module is
\* written
GenerateModuleChangelog ==
    /\ pc = "changelog"
    /\ LET node == nodes[moduleOrder[idx]]
       IN  changelogs' = IF node.newVersion # Null
                         THEN changelogs \cup {node.path}
                         ELSE changelogs
    /\ idx' = IF idx = Len(moduleOrder) THEN 1 ELSE idx + 1
    /\ pc' = IF idx = Len(moduleOrder) THEN "done" ELSE "changelog"
    /\ UNCHANGED <<world, deployment>>
    /\ UNCHANGED <<nodes, moduleGraph, visitedModules, moduleOrder, modifiedFiles, thrown>>
    /\ UNCHANGED <<writes, commitLog, createRefCalls, printed, run>>

\* ------------------------------------------------------------------ projects

\* the implementation(project(":d")) lines a build file may hold
ProjectLists == DistinctSeqs({Colon(d) : d \in Dirs}, MaxDeps)

BuildFile(version, projects) ==
    [exists |-> TRUE, version |-> version, projects |-> projects]
NoBuildFile == [exists |-> FALSE, version |-> Null, projects |-> <<>>]

Log(subjects) == [ok |-> TRUE, subjects |-> subjects]
LogFails == [ok |-> FALSE, subjects |-> <<>>]

\* the working tree is the checkout of HEAD
CleanCheckout == repoHead = [p \in Paths |-> buildFiles[p].version]

\* the manager after construction, before execute()
Constructed ==
    /\ nodes = <<>>
    /\ moduleGraph = <<>>
    /\ visitedModules = {}
    /\ moduleOrder = <<>>
    /\ modifiedFiles = <<>>
    /\ pc = IF settings = <<>> THEN "detect" ELSE "build"
    /\ idx = 1
    /\ thrown = NoError
    /\ writes = <<>>
    /\ commitLog = <<>>
    /\ createRefCalls = <<>>
    /\ changelogs = {}
    /\ printed = <<>>
    /\ run = 1

\* Settings files are drawn up to renaming of the directories: the first
\* directory included is a, the next new one b, then c. Every name is written
\* 'd' or ':d'.
DirOrder == <<"a", "b", "c">>
Rank(d) == CHOOSE i \in 1..Len(DirOrder) : DirOrder[i] = d
IncludeNames == {Plain(d) : d \in Dirs} \cup {Colon("a"), Colon("b")}
DirOfName(name) == ModulePath(name)[1]

FirstSeenInOrder(s) ==
    \A i \in 1..Len(s) :
        \/ Rank(DirOfName(s[i])) = 1
        \/ \E j \in 1..(i - 1) : Rank(DirOfName(s[j])) + 1 >= Rank(DirOfName(s[i]))

SettingsFiles(names, n) == {s \in SeqsUpTo(names, n) : FirstSeenInOrder(s)}

\* a directory no include line names holds no build file
OnlyIncluded(s, files) ==
    \A p \in Paths : (\A i \in 1..Len(s) : ModulePath(s[i]) # p) => files[p] = NoBuildFile

\* Graph construction, cycle check and ordering: every settings file of up to
\* MaxModules include lines, every dependency declaration, no commits.
InitGraph ==
    /\ settings \in SettingsFiles(IncludeNames, MaxModules)
    /\ buildFiles \in [Paths -> {BuildFile(<<1, 0, 0>>, ps) : ps \in ProjectLists}
                                  \cup {NoBuildFile}]
    /\ OnlyIncluded(settings, buildFiles)
    /\ history = [p \in Paths |-> Log(<<>>)]
    /\ tags = {}
    /\ CleanCheckout
    /\ dryRun = TRUE
    /\ githubInScope = FALSE
    /\ entry = "cli"
    /\ Constructed

NextGraph ==
    \/ BuildModule
    \/ DetectCyclicDependencies
    \/ AnalyzeNode
    \/ TopologicalSort

SpecGraph == InitGraph /\ [][NextGraph]_vars

\* Version calculation in report mode: settings files of pairwise distinct
\* names, build files that declare dependencies on directories included
\* earlier, and for every directory one of four histories.
DistinctNames(s) == \A i, j \in 1..Len(s) : i # j => s[i] # s[j]

EarlierDirs(d) == {e \in Dirs : Rank(e) < Rank(d)}

\* versions of the three build files; c declares none
CalcVersion == [p \in Paths |->
    IF p = Plain("a") THEN <<1, 0, 0>>
    ELSE IF p = Plain("b") THEN <<2, 1, 3>>
    ELSE Null]

CalcBuildFiles ==
    {files \in [Paths -> {BuildFile(v, ps) : v \in {CalcVersion[p] : p \in Paths},
                                             ps \in ProjectLists}] :
        \A p \in Paths :
            /\ files[p].version = CalcVersion[p]
            /\ \A q \in Range(files[p].projects) :
                  q \in {Colon(e) : e \in EarlierDirs(p[1])}}

CalcLogs == {Log(<<>>), Log(<<Subject("fix:")>>), Log(<<Subject("feat:")>>),
             Log(<<Subject("feat!:")>>)}

Included(s) == {ModulePath(s[i]) : i \in 1..Len(s)}

InitCalc ==
    /\ settings \in SettingsFiles(IncludeNames, MaxModules)
    /\ DistinctNames(settings)
    /\ buildFiles \in CalcBuildFiles
    /\ history \in [Paths -> CalcLogs]
    /\ \A p \in Paths \ Included(settings) :
          /\ buildFiles[p].projects = <<>>
          /\ history[p] = Log(<<>>)
    /\ tags = {}
    /\ CleanCheckout
    /\ dryRun = TRUE
    /\ githubInScope = FALSE
    /\ entry = "cli"
    /\ Constructed

NextReport ==
    \/ BuildModule
    \/ DetectCyclicDependencies
    \/ AnalyzeNode
    \/ TopologicalSort
    \/ CalculateNode
    \/ PrintDryRunResults

SpecCalc == InitCalc /\ [][NextReport]_vars

\* Version calculation over every iteration order of the module map: the
\* settings file may repeat a name, which moves a module's node behind the
\* nodes it was listed before, and a, b and c declare dependencies on a and b.
OrderBuildFiles ==
    {files \in [Paths -> {BuildFile(v, ps) : v \in {CalcVersion[p] : p \in Paths},
                                             ps \in DistinctSeqs({Colon("a"), Colon("b")}, MaxDeps)}] :
        \A p \in Paths : files[p].version = CalcVersion[p]}

InitOrder ==
    /\ settings \in SettingsFiles({Plain(d) : d \in Dirs}, MaxModules)
    /\ buildFiles \in OrderBuildFiles
    /\ history \in [Paths -> CalcLogs]
    /\ \A p \in Paths \ Included(settings) :
          /\ buildFiles[p].projects = <<>>
          /\ history[p] = Log(<<>>)
    /\ tags = {}
    /\ CleanCheckout
    /\ dryRun = TRUE
    /\ githubInScope = FALSE
    /\ entry = "cli"
    /\ Constructed

SpecOrder == InitOrder /\ [][NextReport]_vars

\* the projects of SpecGraph whose settings file repeats no name
InitDistinct == InitGraph /\ DistinctNames(settings)

SpecDistinct == InitDistinct /\ [][NextGraph]_vars

\* the projects of SpecGraph taken through the calculation and the summary
SpecGraphCalc == InitGraph /\ [][NextReport]_vars

\* One module a with every history of up to MaxCommits subjects.
OneModule(version, log) ==
    /\ settings = <<Plain("a")>>
    /\ buildFiles = [p \in Paths |->
          IF p = Plain("a") THEN BuildFile(version, <<>>) ELSE NoBuildFile]
    /\ history = [p \in Paths |-> IF p = Plain("a") THEN log ELSE Log(<<>>)]
    /\ tags = {}
    /\ CleanCheckout
    /\ dryRun = TRUE
    /\ githubInScope = FALSE
    /\ entry = "cli"
    /\ Constructed

InitClassify ==
    \E subjects \in SeqsUpTo(Commits, MaxCommits) : OneModule(<<1, 0, 0>>, Log(subjects))

SpecClassify == InitClassify /\ [][NextReport]_vars

\* One module a with every version of three components up to MaxComponent
\* and each of the four histories.
InitBump ==
    \E version \in [1..3 -> 0..MaxComponent], log \in CalcLogs : OneModule(version, log)

SpecBump == InitBump /\ [][NextReport]_vars

\* One module a whose build file declares a version text of any shape:
\* '1.2.3', '1.2', '1.2.3.4', '1.2.x', 'x', '1..3', 'x.2.3', or none at all.
VersionTexts ==
    {<<1, 2, 3>>, <<1, 2>>, <<1, 2, 3, 4>>, <<1, 2, Garbage>>, <<Garbage>>,
     <<1, EmptyText, 3>>, <<Garbage, 2, 3>>, Null}

InitMalformed ==
    \E version \in VersionTexts, log \in CalcLogs : OneModule(version, log)

SpecMalformed == InitMalformed /\ [][NextReport]_vars

\* The whole of execute() in both modes, started either way, on projects of
\* the directories a and b; a run that completed in apply mode may be followed
\* by another on the repository as the run left it.
ApplyLogs == {Log(<<>>), Log(<<Subject("fix:")>>), Log(<<Subject("feat!:")>>), LogFails}

ApplyBuildFiles ==
    {files \in [Paths -> {BuildFile(v, ps) : v \in {<<1, 0, 0>>, <<2, 1, 3>>, Null},
                                             ps \in {<<>>, <<Colon("a")>>}}
                         \cup {NoBuildFile}] :
        /\ files[Plain("a")].exists /\ files[Plain("a")].version = <<1, 0, 0>>
        /\ files[Plain("b")].exists /\ files[Plain("b")].version \in {<<2, 1, 3>>, Null}
        /\ files[Plain("c")] = NoBuildFile}

\* the tag an earlier release left for b
ReleasedB == [module |-> Plain("b"), version |-> <<2, 1, 3>>]

Init ==
    /\ settings \in SettingsFiles({Plain("a"), Plain("b")}, MaxModules)
    /\ buildFiles \in ApplyBuildFiles
    /\ history \in [Paths -> ApplyLogs]
    /\ \A p \in Paths \ Included(settings) :
          /\ buildFiles[p].projects = <<>>
          /\ buildFiles[p].exists => buildFiles[p].version # Null
          /\ history[p] = Log(<<>>)
    /\ tags \in {{}, {ReleasedB}}
    /\ ReleasedB \in tags => Plain("b") \in Included(settings)
    /\ CleanCheckout
    /\ dryRun \in BOOLEAN
    /\ githubInScope \in BOOLEAN
    /\ entry \in {"action", "cli"}
    /\ Constructed

\* the subjects git log prints for a path once the run's tags and its commit
\* 'chore: Update module versions' are in the repository
LogSinceRelease(p) ==
    IF commitLog # <<>> /\ p \in commitLog[Len(commitLog)]
    THEN Log(<<Subject("chore:")>>)
    ELSE Log(<<>>)

\* index.js run() (lines 5-16) or main (lines 437-446) once more: a new
\* manager on the repository the completed apply run left, no commit added
StartNextRun ==
    /\ pc = "done"
    /\ ~dryRun
    /\ run < MaxRuns
    /\ history' = IF commitLog # <<>> THEN [p \in Paths |-> LogSinceRelease(p)] ELSE history
    /\ nodes' = <<>>
    /\ moduleGraph' = <<>>
    /\ visitedModules' = {}
    /\ moduleOrder' = <<>>
    /\ modifiedFiles' = <<>>
    /\ pc' = IF settings = <<>> THEN "detect" ELSE "build"
    /\ idx' = 1
    /\ thrown' = NoError
    /\ writes' = <<>>
    /\ commitLog' = <<>>
    /\ createRefCalls' = <<>>
    /\ changelogs' = {}
    /\ printed' = <<>>
    /\ run' = run + 1
    /\ UNCHANGED <<settings, buildFiles, tags, repoHead, deployment>>

Next ==
    \/ BuildModule
    \/ DetectCyclicDependencies
    \/ AnalyzeNode
    \/ TopologicalSort
    \/ CalculateNode
    \/ PrintDryRunResults
    \/ UpdateGradleVersion
    \/ CommitChanges
    \/ CreateGitTag
    \/ GenerateModuleChangelog
    \/ StartNextRun

Spec == Init /\ [][Next]_vars

\* ------------------------------------------------------------------ graph claims

\* Modules are identified by name: the module named x is the node the graph
\* holds under x, and x depends on y when that node's dependencies hold a
\* node named y.
ModuleNames == {moduleGraph[i].key : i \in 1..Len(moduleGraph)}
DependsOn(x, y) ==
    \E d \in Range(nodes[MapGet(moduleGraph, x)].dependencies) : nodes[d].name = y

RECURSIVE ReachableFrom(_, _)
ReachableFrom(frontier, seen) ==
    LET next == {y \in ModuleNames : \E x \in frontier : DependsOn(x, y)} \ seen
    IN  IF next = {} THEN seen ELSE ReachableFrom(next, seen \cup next)

\* the names reachable from x over one or more dependency edges
Successors(x) == {y \in ModuleNames : DependsOn(x, y)}
Reachable(x) == ReachableFrom(Successors(x), Successors(x))
HasCycle == \E x \in ModuleNames : x \in Reachable(x)

Built == pc # "build"
CycleChecked == pc \notin {"build", "detect"}
Sorted == pc \notin {"build", "detect", "analyze", "sort", "failed"}
PositionOf(name) == {i \in 1..Len(moduleOrder) : nodes[moduleOrder[i]].name = name}

\* C3: once topologicalSort has run on a graph that passed the cycle check,
\* every module of the graph is in moduleOrder, and for every edge X
\* depends-on Y the module Y stands at a smaller index than X.
C3_DependenciesFirst ==
    Sorted =>
        /\ \A x \in ModuleNames : PositionOf(x) # {}
        /\ \A i \in 1..Len(moduleOrder) :
              \A d \in Range(nodes[moduleOrder[i]].dependencies) :
                  \E j \in PositionOf(nodes[d].name) : j < i

\* a sorted graph with an edge, whose order differs from the order of the map
C3_Witness ==
    /\ Sorted
    /\ moduleOrder # Values
    /\ \E i \in 1..Len(moduleOrder) : nodes[moduleOrder[i]].dependencies # <<>>

\* C4: detectCyclicDependencies throws exactly when the built graph has a
\* directed cycle (a self-dependency included), and the sequence it reports
\* starts and ends with the same name and follows dependency edges.
C4_ThrowsIffCycle ==
    CycleChecked =>
        /\ (thrown.kind = "CyclicDependency") <=> HasCycle
        /\ thrown.kind = "CyclicDependency" =>
              LET cycle == thrown.cycle
              IN  /\ Len(cycle) >= 2
                  /\ cycle[1] = cycle[Len(cycle)]
                  /\ \A i \in 1..(Len(cycle) - 1) :
                        /\ cycle[i] \in ModuleNames
                        /\ DependsOn(cycle[i], cycle[i + 1])

\* a cycle reported from a walk that entered it from a module outside it
C4_Witness ==
    /\ thrown.kind = "CyclicDependency"
    /\ nodes[Values[1]].dependencies # <<>>
    /\ nodes[Values[1]].name \notin Range(thrown.cycle)

\* C7: once the graph is built, a module whose build file declares
\* project(':y') has the edge to the module of that project whenever both are
\* modules of the graph, in whatever order settings lists them.
Declares(x, y) ==
    \E p \in Range(buildFiles[nodes[x].path].projects) : ModulePath(p) = nodes[y].path

C7_DeclaredEdgesBuilt ==
    Built =>
        \A x, y \in Range(Values) :
            (x # y /\ Declares(x, y)) =>
                /\ y \in Range(nodes[x].dependencies)
                /\ x \in Range(nodes[y].dependents)

\* C8: an include line whose name the graph already holds fails the build
\* and leaves the graph as it was.
C8_DuplicateRejected ==
    [][(pc = "build" /\ MapHas(moduleGraph, settings[idx])
           /\ buildFiles[ModulePath(settings[idx])].exists)
        => (moduleGraph' = moduleGraph /\ nodes' = nodes /\ pc' = "failed")]_vars

\* ------------------------------------------------------------------ calculation claims

Calculated == pc \in {"print", "update", "commit", "tag", "changelog", "done"}

Node(x) == nodes[MapGet(moduleGraph, x)]

\* the severity of a module's own commits
OwnSeverity(x) == DetermineChangeType(GetCommitsSinceTag(Node(x).path))

Bumped(x, type) == Node(x).newVersion = IncrementVersion(Node(x).currentVersion, type)

\* C1: after calculateNewVersions every module that depends, directly or
\* through other modules, on a module whose severity is major has received a
\* minor or a major bump.
C1_TransitiveDependentsBumped ==
    Calculated =>
        \A x, y \in ModuleNames :
            (y \in Reachable(x) /\ OwnSeverity(y) = "major") =>
                (Bumped(x, "minor") \/ Bumped(x, "major"))

\* C2: after calculateNewVersions a module whose own commits classify as major
\* has the version M+1.0.0, and every module that declares a dependency on it
\* and whose own severity is none or patch has M.N+1.0.
DeclaresDependencyOn(x, y) ==
    Declares(MapGet(moduleGraph, x), MapGet(moduleGraph, y))

C2_MajorBumpsDirectDependents ==
    Calculated =>
        \A y \in ModuleNames :
            OwnSeverity(y) = "major" =>
                /\ Bumped(y, "major")
                /\ \A x \in ModuleNames \ {y} :
                      (DeclaresDependencyOn(x, y) /\ OwnSeverity(x) \in {"none", "patch"})
                          => Bumped(x, "minor")

\* the same over the edges the graph holds
C2_OverBuiltEdges ==
    Calculated =>
        \A y \in ModuleNames :
            OwnSeverity(y) = "major" =>
                /\ Bumped(y, "major")
                /\ \A x \in ModuleNames \ {y} :
                      (DependsOn(x, y) /\ OwnSeverity(x) \in {"none", "patch"})
                          => Bumped(x, "minor")

\* ------------------------------------------------------------------ classifier and bump claims

Analyzed == pc \in {"sort", "calculate"} \/ Calculated

Some(commits, P(_)) == \E i \in 1..Len(commits) : P(commits[i])
IsBreaking(c) == c.prefix = "feat!:" \/ c.breaking
IsFeature(c) == c.prefix = "feat:"
IsFix(c) == c.prefix = "fix:"

Reorderings(s) ==
    {[i \in 1..Len(s) |-> s[f[i]]] :
        f \in {g \in [1..Len(s) -> 1..Len(s)] : \A i, j \in 1..Len(s) : i # j => g[i] # g[j]}}

\* C5: the change type analyzeChanges stores for a module is major if some
\* commit is a breaking change, else minor if some commit is a feature, else
\* patch if some commit is a fix, else none; every reordering of the commits
\* classifies the same.
C5_HighestSeverityWins ==
    (Analyzed /\ ModuleNames = {Plain("a")}) =>
        LET commits == history[Plain("a")].subjects
            changeType == Node(Plain("a")).changeType
        IN  /\ changeType =
                  IF Some(commits, IsBreaking) THEN "major"
                  ELSE IF Some(commits, IsFeature) THEN "minor"
                  ELSE IF Some(commits, IsFix) THEN "patch"
                  ELSE "none"
            /\ \A q \in Reorderings(commits) : DetermineChangeType(q) = changeType

C5_Witness ==
    /\ Analyzed
    /\ ModuleNames = {Plain("a")}
    /\ history[Plain("a")].subjects = <<Subject("fix:"), Subject("feat:"), Subject("fix:")>>
    /\ Node(Plain("a")).changeType = "minor"

\* C6: the new version calculateNewVersions stores for a module of version
\* M.N.P is (M+1).0.0 when its change type is major, M.(N+1).0 when minor and
\* M.N.(P+1) when patch; a second patch bump of that gives M.N.(P+2).
C6_BumpArithmetic ==
    (Calculated /\ ModuleNames = {Plain("a")}) =>
        LET node == Node(Plain("a"))
            M == node.currentVersion[1]
            N == node.currentVersion[2]
            P == node.currentVersion[3]
        IN  /\ node.changeType = "major" => node.newVersion = <<M + 1, 0, 0>>
            /\ node.changeType = "minor" => node.newVersion = <<M, N + 1, 0>>
            /\ node.changeType = "patch" =>
                  /\ node.newVersion = <<M, N, P + 1>>
                  /\ IncrementVersion(node.newVersion, "patch") = <<M, N, P + 2>>

C6_Witness ==
    /\ Calculated
    /\ ModuleNames = {Plain("a")}
    /\ Node(Plain("a")).currentVersion = <<1, 2, 2>>
    /\ Node(Plain("a")).changeType = "minor"
    /\ Node(Plain("a")).newVersion = <<1, 3, 0>>

\* ------------------------------------------------------------------ apply claims

\* C9: in apply mode updateGradleVersion writes a build file only for a module
\* whose new version differs from its current version, and a commit is
\* recorded only after such a write.
C9_WritesOnlyChangedVersions ==
    /\ \A i \in 1..Len(writes) : writes[i].version # writes[i].was
    /\ commitLog # <<>> => \E i \in 1..Len(writes) : writes[i].version # writes[i].was

\* C10: a further apply run on the repository as the last run left it, with
\* no commit added, ends without an error, writes no changed version and
\* creates no tag: createRef is not called for a tag that exists.
C10_SecondApplyIsNoOp ==
    run > 1 =>
        /\ pc # "failed"
        /\ \A i \in 1..Len(writes) : writes[i].version = writes[i].was
        /\ \A i \in 1..Len(createRefCalls) : ~createRefCalls[i].existed

\* ------------------------------------------------------------------ run claims

\* C11: in a dry run execute writes no build file, records no commit, calls
\* no createRef and writes no CHANGELOG.md; the working tree stays the
\* checkout of HEAD, and what the finished run leaves is the printed summary
\* with an entry for every module of the graph.
C11_DryRunOnlyPrints ==
    dryRun =>
        /\ writes = <<>>
        /\ commitLog = <<>>
        /\ createRefCalls = <<>>
        /\ changelogs = {}
        /\ CleanCheckout
        /\ pc = "done" =>
              /\ Len(printed) = Len(moduleOrder)
              /\ \A x \in ModuleNames : \E i \in 1..Len(printed) :
                    /\ printed[i].name = x
                    /\ printed[i].currentVersion = nodes[moduleOrder[i]].currentVersion
                    /\ printed[i].newVersion = nodes[moduleOrder[i]].newVersion
                    /\ printed[i].changeType = nodes[moduleOrder[i]].changeType

\* a finished dry run that printed a module with a new version to apply
C11_Witness ==
    /\ dryRun
    /\ pc = "done"
    /\ \E i \in 1..Len(printed) : printed[i].newVersion # printed[i].currentVersion

\* C12: an error thrown by a step of execute ends the run: it is the error
\* execute rethrows, and no step runs after it. When the cycle check throws,
\* no module was classified, ordered or given a new version, and nothing was
\* written, committed, tagged or printed.
C12_FailureAbortsRun ==
    /\ [](thrown # NoError <=> pc = "failed")
    /\ [](thrown.kind = "CyclicDependency" =>
              /\ moduleOrder = <<>>
              /\ \A n \in 1..Len(nodes) :
                    nodes[n].changeType = "none" /\ nodes[n].newVersion = Null
              /\ writes = <<>> /\ commitLog = <<>> /\ createRefCalls = <<>>
              /\ changelogs = {} /\ printed = <<>> /\ CleanCheckout)
    /\ [][pc = "failed" => UNCHANGED vars]_vars

\* an apply run stopped by the cycle check, on a module that has a commit to
\* classify
C12_Witness ==
    /\ thrown.kind = "CyclicDependency"
    /\ ~dryRun
    /\ \E n \in 1..Len(nodes) : GetCommitsSinceTag(nodes[n].path) # <<>>

\* C13: a failing git log for one module does not end the run; once
\* analyzeChanges is through, that module has changeType none and every
\* other module the change type of its own commits.
C13_FetchFailureIsNoCommits ==
    /\ thrown.kind = "ReferenceError" => thrown.name # "moduleDir"
    /\ pc = "sort" =>
          \A n \in Range(Values) :
              nodes[n].changeType =
                  IF history[nodes[n].path].ok
                  THEN DetermineChangeType(history[nodes[n].path].subjects)
                  ELSE "none"

\* the same with the manager of src/version-manager.js
C13_InVersionManagerJs == ~githubInScope => C13_FetchFailureIsNoCommits

\* C14: a module whose current version is not three dot-separated
\* non-negative integers never gets a new version computed from it, and a
\* run that has to bump it ends with an invalid-version error.
WellFormed(version) == Len(version) = 3 /\ \A i \in 1..3 : version[i] >= 0

C14_MalformedVersionRejected ==
    \A n \in 1..Len(nodes) :
        ~WellFormed(nodes[n].currentVersion) =>
            /\ nodes[n].newVersion \in {Null, nodes[n].currentVersion}
            /\ (Calculated /\ nodes[n].changeType # "none") =>
                  thrown.kind = "InvalidVersion"

\* C15: in every state of a run, node A is in B.dependents exactly when B
\* is in A.dependencies, for all node objects the run has constructed.
C15_DependentsMirrorDependencies ==
    \A A, B \in 1..Len(nodes) :
        A \in Range(nodes[B].dependents) <=> B \in Range(nodes[A].dependencies)

\* a calculated graph in which one module has two dependents
C15_Witness ==
    /\ Calculated
    /\ \E B \in 1..Len(nodes) : Len(nodes[B].dependents) = 2

\* C16: within a run no step lowers the changeType of a node in the order
\* none < patch < minor < major, and a step of calculateNewVersions leaves a
\* changeType that is minor or major as it is.
Severity(changeType) ==
    CASE changeType = "none" -> 0
      [] changeType = "patch" -> 1
      [] changeType = "minor" -> 2
      [] changeType = "major" -> 3

C16_SeverityNeverLowered ==
    [][run' = run =>
          \A n \in 1..Len(nodes) :
              /\ n <= Len(nodes')
              /\ Severity(nodes'[n].changeType) >= Severity(nodes[n].changeType)
              /\ (pc = "calculate" /\ nodes[n].changeType \in {"minor", "major"}) =>
                    nodes'[n].changeType = nodes[n].changeType]_vars

\* a module whose own commits are a fix, raised to minor by its dependency
C16_Witness ==
    /\ Calculated
    /\ \E x \in ModuleNames : OwnSeverity(x) = "patch" /\ Node(x).changeType = "minor"

\* C17: on a graph without a cycle whose edges join modules of the graph,
\* calculateNewVersions gives every module a newVersion once, and it is the
\* bump of currentVersion by the higher of the module's own severity and
\* minor when a direct dependency's own severity is major (currentVersion
\* itself when that is none), whatever the order of the module map.
ClassifiedSeverity(n) == DetermineChangeType(GetCommitsSinceTag(nodes[n].path))

ForcedSeverity(n) ==
    IF /\ ClassifiedSeverity(n) \in {"none", "patch"}
       /\ \E d \in Range(nodes[n].dependencies) : ClassifiedSeverity(d) = "major"
    THEN "minor"
    ELSE ClassifiedSeverity(n)

ExpectedVersion(n) ==
    IF ForcedSeverity(n) = "none"
    THEN nodes[n].currentVersion
    ELSE IncrementVersion(nodes[n].currentVersion, ForcedSeverity(n))

EdgesJoinModules ==
    \A n \in Range(Values) :
        Range(nodes[n].dependencies) \cup Range(nodes[n].dependents) \subseteq Range(Values)

ListedAt(name) == CHOOSE i \in 1..Len(settings) : settings[i] = name

C18_EdgesPointBackwards ==
    DistinctNames(settings) =>
        /\ \A n \in 1..Len(nodes) : \A d \in Range(nodes[n].dependencies) :
              ListedAt(nodes[d].name) <= ListedAt(nodes[n].name)
        /\ Built =>
              \A x \in ModuleNames : \A y \in Reachable(x) \ {x} : x \notin Reachable(y)
        /\ thrown.kind = "CyclicDependency" =>
              /\ Len(thrown.cycle) = 2
              /\ DependsOn(thrown.cycle[1], thrown.cycle[1])

\* three distinct names: the second depends on itself and on the first, and
\* the cycle check has thrown
C18_Witness ==
    /\ DistinctNames(settings)
    /\ Len(nodes) = 3
    /\ thrown.kind = "CyclicDependency"
    /\ \E n \in 1..Len(nodes) : Range(nodes[n].dependencies) = {n, 1} /\ n # 1

====
